---- MODULE Spec2Model ----
(***************************************************************************)
(* A model of js/script.js, the cover compositor of perlschool-covers.     *)
(*                                                                         *)
(* The page is single threaded: every handler (an image, logo or font     *)
(* completion, a field input, a window resize, a download click, a preset  *)
(* load) runs to completion, so each is one action.  The record `pass`     *)
(* keeps what the handler's call of renderToContext read and drew, and     *)
(* `ev` names the handler that ran last.                                   *)
(*                                                                         *)
(* Numbers.  state.scale is the rational canvas.width / nativeWidth, kept  *)
(* as a reduced fraction [n, d].  Inside one compose pass every length is  *)
(* an integer count of units, px == 100 * nativeWidth units to the pixel:  *)
(* every length the pass computes (k * scale, 0.95 * size, H / 2, a text   *)
(* width) is a whole number of these units, so the arithmetic is exact.    *)
(* The doubles of the source are modelled as these exact rationals.        *)
(***************************************************************************)
EXTENDS Integers, Sequences, FiniteSets, TLC

VARIABLES state, canvas, fields, imgLoad, logoLoad, fontLoad, surface, pass,
          ev

vars == <<state, canvas, fields, imgLoad, logoLoad, fontLoad, surface, pass,
          ev>>

----------------------------------------------------------------------------
(* Bounds and inputs of the model *)

\* longest run of "W" a field may hold
MaxWordLen == 2

RECURSIVE Word(_)
Word(k) == IF k = 0 THEN <<>> ELSE <<"W">> \o Word(k - 1)

\* the values a title may hold: empty, or a word too wide for the column
Texts == {<<>>} \cup {Word(k) : k \in 2..MaxWordLen}

\* the values the subtitle and the author may hold: empty, or a padded word
\* that fits
ShortTexts == {<<>>, <<" ", "W">>}

Tints == {"#0b5fff", "#333333"}

FieldIds == {"tint", "title1", "title2", "subtitle", "author"}

FieldValues(id) ==
  CASE id = "tint" -> Tints
    [] id \in {"title1", "title2"} -> Texts
    [] OTHER -> ShortTexts

\* window.innerWidth x window.innerHeight, as setCanvasSize may read them
Viewports == {[w |-> 700, h |-> 500], [w |-> 758, h |-> 600]}

\* img/pearl.jpg as decoded: an ordinary cover, and a one pixel wide strip
Null == [src |-> "null", width |-> 0, height |-> 0]
Images == {[src |-> "img/pearl.jpg", width |-> 400, height |-> 640],
           [src |-> "img/pearl.jpg", width |-> 1, height |-> 1000]}
Logos == {[src |-> "img/logo.png", width |-> 120, height |-> 60]}

\* what a preset file may hold: text JSON.parse rejects, the JSON values
\* null and 5, and an object (entries in file order, one with a key that
\* names no element)
Presets ==
  { [kind |-> "malformed", entries |-> <<>>],
    [kind |-> "null", entries |-> <<>>],
    [kind |-> "scalar", entries |-> <<>>],
    [kind |-> "object", entries |-> << <<"tint", "#333333">>,
                                       <<"title2", <<"W", "W">> >>,
                                       <<"nosuchfield", <<"W">> >>,
                                       <<"subtitle", <<" ", "W">> >>,
                                       <<"author", <<>> >> >>] }

\* where a native-resolution export may raise
Failures == {"none", "renderToContext", "toDataURL"}

----------------------------------------------------------------------------
(* Arithmetic *)

Max(a, b) == IF a >= b THEN a ELSE b

Abs(a) == IF a >= 0 THEN a ELSE 0 - a

RECURSIVE GCD(_, _)
GCD(a, b) == IF b = 0 THEN a ELSE GCD(b, a % b)

\* the rational n / d, reduced (d > 0)
Frac(n, d) == LET g == GCD(n, d) IN [n |-> n \div g, d |-> d \div g]

One == Frac(1, 1)

\* Math.round(p / q) for p >= 0, q > 0: halves round up
Round(p, q) == (2 * p + q) \div (2 * q)

----------------------------------------------------------------------------
(* Program constants *)

ControlPanelWidth == 360
BodyPadding == 32
Gap == 16
SafetyMargin == 100
MinMaxWidth == 250
MinMaxHeight == 350
FallbackWidth == 1600
FallbackHeight == 2560
NativeTitleMax == 260
DefaultMinSize == 24
FitStep == 2
NativeBaseSize == 120
NativeMinSize == 40
NativeAuthorSize == 175
NativeMargin == 75

----------------------------------------------------------------------------
(* Text metrics, tracking and the fit solver *)

\* a glyph's advance in twentieths of the font size: measureText is linear
\* in the font size
Advance(ch) == IF ch = " " THEN 5 ELSE 20

RECURSIVE AdvanceSum(_)
AdvanceSum(text) ==
  IF text = <<>> THEN 0 ELSE Advance(Head(text)) + AdvanceSum(Tail(text))

\* a string as the canvas measures it: its length and the sum of its glyphs'
\* advances
Measured(text) == [length |-> Len(text), advance |-> AdvanceSum(text)]

\* renderCtx.measureText(text).width with the font size set to `size` units,
\* for the measured string m
MeasureText(m, size) == (size \div 20) * m.advance

\* String.prototype.trim
RECURSIVE TrimStart(_)
TrimStart(s) ==
  IF s # <<>> /\ Head(s) = " " THEN TrimStart(Tail(s)) ELSE s

RECURSIVE TrimEnd(_)
TrimEnd(s) ==
  IF s # <<>> /\ s[Len(s)] = " " THEN TrimEnd(SubSeq(s, 1, Len(s) - 1)) ELSE s

Trim(s) == TrimEnd(TrimStart(s))

\* the emptiness checks left out: every text block is laid out and drawn
HasTextAlways(s) == TRUE

\* the truthiness of a string: if(title1)
HasText(s) == s # <<>>

MeasureWithTrackingForContext(m, letter, size) ==
  IF letter = 0 THEN MeasureText(m, size)
  ELSE MeasureText(m, size) + letter * Max(0, m.length - 1)

\* the condition of the while loop of fitTextForContext at font size `size`
FitContinues(m, maxWidth, minSize, letter, size) ==
  MeasureWithTrackingForContext(m, letter, size) > maxWidth /\ size > minSize

\* the while loop of fitTextForContext on the measured string m.  The size
\* after j rounds is maxSize - j * step.  The loop leaves at the first j at
\* which its condition fails: the condition fails at j and held at j - 1.
\* (Only one j is such: a width never grows as the size shrinks, so the
\* condition, once failed, stays failed.)  It has failed after `rounds`
\* rounds at the latest, the size being at or under minSize by then.
FitLoop(m, maxWidth, maxSize, minSize, letter, step, rounds) ==
  LET n == CHOOSE j \in 0..rounds :
             /\ ~FitContinues(m, maxWidth, minSize, letter, maxSize - j * step)
             /\ \/ j = 0
                \/ FitContinues(m, maxWidth, minSize, letter,
                                maxSize - (j - 1) * step)
  IN [size |-> maxSize - n * step,
      width |-> MeasureWithTrackingForContext(m, letter, maxSize - n * step)]

FitTextForContext(text, maxWidth, maxSize, minSize, letter, px) ==
  FitLoop(Measured(text), maxWidth, maxSize, minSize, letter, FitStep * px,
          IF maxSize > minSize
          THEN (maxSize - minSize) \div (FitStep * px) + 1 ELSE 0)

\* what the compose pass remembers of one call of the fit solver
FitRecord(block, text, maxWidth, maxSize, minSize, letter, f) ==
  [block |-> block, text |-> text, maxWidth |-> maxWidth, maxSize |-> maxSize,
   minSize |-> minSize, letter |-> letter, size |-> f.size, width |-> f.width]

----------------------------------------------------------------------------
(* Draw calls *)

NoFont == [weight |-> "", size |-> 0, family |-> ""]

FillRect(style, alpha, w, h) ==
  [op |-> "fillRect", text |-> <<>>, image |-> "", x |-> 0, y |-> 0,
   w |-> w, h |-> h, font |-> NoFont, style |-> style, rgb |-> <<>>,
   alpha |-> alpha]

DrawImage(image, alpha, x, y, w, h) ==
  [op |-> "drawImage", text |-> <<>>, image |-> image.src, x |-> x, y |-> y,
   w |-> w, h |-> h, font |-> NoFont, style |-> "", rgb |-> <<>>,
   alpha |-> alpha]

FillText(text, x, y, font, rgb) ==
  [op |-> "fillText", text |-> text, image |-> "", x |-> x, y |-> y,
   w |-> 0, h |-> 0, font |-> font, style |-> "", rgb |-> rgb,
   alpha |-> 100]

RECURSIVE DrawChars(_, _, _, _, _, _)
DrawChars(text, x, y, letter, font, rgb) ==
  IF text = <<>> THEN <<>>
  ELSE <<FillText(<<Head(text)>>, x, y, font, rgb)>>
       \o DrawChars(Tail(text),
                    x + MeasureText(Measured(<<Head(text)>>), font.size) + letter,
                    y, letter, font, rgb)

DrawTrackedTextForContext(text, x, y, letter, font, rgb) ==
  IF letter = 0 THEN <<FillText(text, x, y, font, rgb)>>
  ELSE DrawChars(text, x, y, letter, font, rgb)

\* colorLuminance on the three channels, lum in hundredths
ColorLuminance(rgb, lum) ==
  [i \in 1..3 |->
     LET c == rgb[i]
         v == 100 * c + c * lum        \* (c + c * lum) in hundredths
         clamped == IF v < 0 THEN 0 ELSE IF v > 25500 THEN 25500 ELSE v
     IN Round(clamped, 100)]

Ink == <<255, 255, 255>>

----------------------------------------------------------------------------
(* The compose pass *)

\* the guard with the checks of the native size left out
InvalidDimensionsTargetOnly(W, H, nativeW, nativeH, scale) ==
  W <= 0 \/ H <= 0 \/ scale.n <= 0

\* the guard of renderToContext
InvalidDimensions(W, H, nativeW, nativeH, scale) ==
  W <= 0 \/ H <= 0 \/ nativeW <= 0 \/ nativeH <= 0 \/ scale.n <= 0

\* what a compose pass works out before it draws: lengths are in units,
\* px units to the pixel
Context(st, W, H, flds) ==
  LET px == 100 * st.nativeWidth
      n == st.scale.n * px
      nativePad == Round(st.nativeWidth * 8, 100)
  IN [px |-> px,
      W |-> W * px,
      H |-> H * px,
      \* k * scale is (k * unit) \div den
      unit |-> n,
      den |-> st.scale.d,
      tint |-> flds.tint,
      img |-> st.img,
      logo |-> st.logo,
      pad |-> (nativePad * n) \div st.scale.d,
      colW |-> ((st.nativeWidth - nativePad * 2) * n) \div st.scale.d,
      titleMax |-> (NativeTitleMax * n) \div st.scale.d,
      titleMax3 |-> Round(3 * NativeTitleMax * st.scale.n, st.scale.d) * px,
      track |-> ((0 - 2) * n) \div st.scale.d,
      titleFamily |-> IF st.titleFont # "" THEN st.titleFont
                      ELSE "TrueNo-Black",
      bodyFamily |-> IF st.bodyFont # "" THEN st.bodyFont ELSE "TrueNo-Book",
      title1 |-> Trim(flds.title1),
      title2 |-> Trim(flds.title2),
      sub |-> Trim(flds.subtitle),
      author |-> Trim(flds.author)]

\* k native units at the pass's scale
Scaled(c, k) == (k * c.unit) \div c.den

\* the tint fill, the image, the wash; the cursor y starts under the padding
Background(c) ==
  [y |-> c.pad + Scaled(c, 20),
   calls |-> <<FillRect(c.tint, 100, c.W, c.H)>>
             \o (IF c.img # Null
                 THEN <<DrawImage(c.img, 80, 0, 0, c.W, c.H)>> ELSE <<>>)
             \o <<FillRect(c.tint, 30, c.W, c.H)>>,
   fits |-> <<>>,
   origins |-> <<>>]

\* a fitted, tracked title line drawn at the cursor, which then moves on by
\* `lead` hundredths of the fitted size plus `gap`
TitleDrawn(c, acc, block, text, maxSize, minSize, f, lead, gap) ==
  [y |-> acc.y + (f.size \div 100) * lead + Scaled(c, gap),
   calls |-> acc.calls
             \o DrawTrackedTextForContext(text, c.pad, acc.y, c.track,
                  [weight |-> "900", size |-> f.size,
                   family |-> c.titleFamily], Ink),
   fits |-> Append(acc.fits, FitRecord(block, text, c.colW, maxSize, minSize,
                                       c.track, f)),
   origins |-> Append(acc.origins, [block |-> block, x |-> c.pad, y |-> acc.y])]

Title1(c, acc) ==
  IF HasText(c.title1)
  THEN TitleDrawn(c, acc, "title1", c.title1, c.titleMax, DefaultMinSize * c.px,
                  FitTextForContext(c.title1, c.colW, c.titleMax,
                                    DefaultMinSize * c.px, c.track, c.px),
                  95, 8)
  ELSE acc

Title2(c, acc) ==
  IF HasText(c.title2)
  THEN TitleDrawn(c, acc, "title2", c.title2, c.titleMax3, c.titleMax,
                  FitTextForContext(c.title2, c.colW, c.titleMax3, c.titleMax,
                                    c.track, c.px),
                  90, 18)
  ELSE acc

SubtitleDrawn(c, acc, baseSize, minSize, subFit, y) ==
  [y |-> y + subFit.size + Scaled(c, 32),
   calls |-> Append(acc.calls,
                    FillText(c.sub, c.pad, y,
                             [weight |-> "normal", size |-> subFit.size,
                              family |-> c.bodyFamily],
                             ColorLuminance(Ink, 0 - 6))),
   fits |-> Append(acc.fits, FitRecord("subtitle", c.sub, c.colW, baseSize,
                                       minSize, 0, subFit)),
   origins |-> Append(acc.origins,
                      [block |-> "subtitle", x |-> c.pad, y |-> y])]

Subtitle(c, acc) ==
  IF HasText(c.sub)
  THEN SubtitleDrawn(c, acc, Scaled(c, NativeBaseSize),
                     Scaled(c, NativeMinSize),
                     FitTextForContext(c.sub, c.colW, Scaled(c, NativeBaseSize),
                                       Scaled(c, NativeMinSize), 0, c.px),
                     acc.y + Scaled(c, 48))
  ELSE acc

AuthorDrawn(c, acc, authorSize, ax, ay) ==
  [acc EXCEPT
     !.calls = Append(@, FillText(c.author, ax, ay,
                                  [weight |-> "normal", size |-> authorSize,
                                   family |-> c.bodyFamily], Ink)),
     !.origins = Append(@, [block |-> "author", x |-> ax, y |-> ay])]

Author(c, acc) ==
  IF HasText(c.author)
  THEN AuthorDrawn(c, acc, Scaled(c, NativeAuthorSize),
                   c.W - c.pad
                     - MeasureText(Measured(c.author),
                                   Scaled(c, NativeAuthorSize)),
                   c.H \div 2)
  ELSE acc

LogoDrawn(c, acc, margin, lw, lh) ==
  [acc EXCEPT
     !.calls = Append(@, DrawImage(c.logo, 100, c.W - margin - lw,
                                   c.H - margin - lh, lw, lh))]

Logo(c, acc) ==
  IF c.logo # Null
  THEN LogoDrawn(c, acc, Scaled(c, NativeMargin), Scaled(c, c.logo.width),
                 Scaled(c, c.logo.height))
  ELSE acc

\* the pass from the background tint to the logo, on valid dimensions
Blocks(c) ==
  Logo(c, Author(c, Subtitle(c, Title2(c, Title1(c, Background(c))))))

Compose(st, W, H, flds) == Blocks(Context(st, W, H, flds))

\* the record of one call of renderToContext: what it read (the state st
\* and the target's size), what it drew and the state it left
PassRecord(target, st, W, H, drawn) ==
  [invoked |-> TRUE, target |-> target, W |-> W, H |-> H, st |-> st,
   stOut |-> st, calls |-> drawn.calls, fits |-> drawn.fits,
   origins |-> drawn.origins, threw |-> FALSE]

NothingDrawn == [calls |-> <<>>, fits |-> <<>>, origins |-> <<>>]

\* renderToContext(renderCtx, targetCanvas)
RenderToContext(target, st, W, H, flds) ==
  IF InvalidDimensions(W, H, st.nativeWidth, st.nativeHeight, st.scale)
  THEN PassRecord(target, st, W, H, NothingDrawn)
  ELSE PassRecord(target, st, W, H, Compose(st, W, H, flds))

\* render(): the compose pass on the live canvas
Render(st, cv, flds) == RenderToContext("live", st, cv.width, cv.height, flds)

\* what the live canvas shows after a handler that made the pass p on it,
\* having shown `before`: every pass that draws starts with an opaque fill
\* of the whole canvas, and one that draws nothing leaves it as it was
Shown(p, before) == IF p.calls # <<>> THEN p.calls ELSE before

----------------------------------------------------------------------------
(* The scale model *)

\* the display size setCanvasSize computes for the viewport
DisplaySize(st, vp) ==
  LET availableWidth == vp.w - ControlPanelWidth - BodyPadding - Gap
      availableHeight == vp.h - BodyPadding
      maxWidth == Max(MinMaxWidth, availableWidth - SafetyMargin)
      maxHeight == Max(MinMaxHeight, availableHeight - SafetyMargin)
      \* scaleByWidth <= scaleByHeight
      byWidth == maxWidth * st.nativeHeight <= maxHeight * st.nativeWidth
  IN IF byWidth
     THEN [width |-> Round(st.nativeWidth * maxWidth, st.nativeWidth),
           height |-> Round(st.nativeHeight * maxWidth, st.nativeWidth)]
     ELSE [width |-> Round(st.nativeWidth * maxHeight, st.nativeHeight),
           height |-> Round(st.nativeHeight * maxHeight, st.nativeHeight)]

\* setCanvasSize() storing the display size as the native size
SetCanvasSizeStoresDisplay(st, cv, vp) ==
  IF st.img = Null \/ st.nativeWidth = 0 \/ st.nativeHeight = 0
  THEN [state |-> st, canvas |-> cv, sized |-> FALSE]
  ELSE LET d == DisplaySize(st, vp)
       IN [state |-> [st EXCEPT !.scale = Frac(d.width, st.nativeWidth),
                                !.nativeWidth = d.width,
                                !.nativeHeight = d.height],
           canvas |-> d, sized |-> TRUE]

\* setCanvasSize(): `sized` tells whether the canvas was assigned (which
\* clears it)
SetCanvasSize(st, cv, vp) ==
  IF st.img = Null \/ st.nativeWidth = 0 \/ st.nativeHeight = 0
  THEN [state |-> st, canvas |-> cv, sized |-> FALSE]
  ELSE LET d == DisplaySize(st, vp)
       IN [state |-> [st EXCEPT !.scale = Frac(d.width, st.nativeWidth)],
           canvas |-> d, sized |-> TRUE]

----------------------------------------------------------------------------
(* Export at native resolution *)

NoPass ==
  [invoked |-> FALSE, target |-> "none", W |-> 0, H |-> 0,
   st |-> [img |-> Null, logo |-> Null, titleFont |-> "", bodyFont |-> "",
           nativeWidth |-> 0, nativeHeight |-> 0, scale |-> One],
   stOut |-> [img |-> Null, logo |-> Null, titleFont |-> "", bodyFont |-> "",
              nativeWidth |-> 0, nativeHeight |-> 0, scale |-> One],
   calls |-> <<>>, fits |-> <<>>, origins |-> <<>>, threw |-> FALSE]

\* the pass of an export in which renderToContext raises after its first
\* draw call
Interrupted(p) ==
  [p EXCEPT !.calls = SubSeq(p.calls, 1, 1), !.fits = <<>>,
            !.origins = <<>>, !.threw = TRUE]

\* the export without its finally block: the scale is restored only on the
\* path that returns
ExportDoneNoFinally(originalScale, fail, p) ==
  [state |-> IF fail = "none" THEN [p.stOut EXCEPT !.scale = originalScale]
             ELSE p.stOut,
   result |-> IF fail = "none" THEN "dataURL" ELSE "threw",
   pass |-> IF fail = "renderToContext" THEN Interrupted(p) ELSE p]

\* the finally block and what the try block returned or raised
ExportDone(originalScale, fail, p) ==
  [state |-> [p.stOut EXCEPT !.scale = originalScale],
   result |-> IF fail = "none" THEN "dataURL" ELSE "threw",
   pass |-> IF fail = "renderToContext" THEN Interrupted(p) ELSE p]

\* exportAtNativeResolution(): `fail` is where the export raises, if at all
ExportAtNativeResolution(st, flds, fail) ==
  IF st.nativeWidth = 0 \/ st.nativeHeight = 0
  THEN [state |-> st, result |-> "null", pass |-> NoPass]
  ELSE ExportDone(st.scale, fail,
                  RenderToContext("export", [st EXCEPT !.scale = One],
                                  st.nativeWidth, st.nativeHeight, flds))

----------------------------------------------------------------------------
(* Presets *)

\* whether reading the file's entries raises: JSON.parse on text that is no
\* JSON, Object.entries on null
PresetThrows(preset) == preset.kind \in {"malformed", "null"}

RECURSIVE SetEntries(_, _)
SetEntries(flds, entries) ==
  IF entries = <<>> THEN flds
  ELSE LET k == Head(entries)[1]
           v == Head(entries)[2]
       IN SetEntries(IF k \in FieldIds THEN [flds EXCEPT ![k] = v] ELSE flds,
                     Tail(entries))

----------------------------------------------------------------------------
(* The state machine *)

Ev(kind) == [kind |-> kind, alert |-> FALSE, preset |-> "", fail |-> "",
             result |-> ""]

Init ==
  /\ state = [img |-> Null, logo |-> Null, titleFont |-> "TrueNo-Black",
              bodyFont |-> "TrueNo-Regular", nativeWidth |-> 0,
              nativeHeight |-> 0, scale |-> One]
  /\ canvas = [width |-> FallbackWidth, height |-> FallbackHeight]
  /\ fields = [tint |-> "#0b5fff", title1 |-> <<>>, title2 |-> <<>>,
               subtitle |-> <<>>, author |-> <<>>]
  /\ imgLoad = "pending"
  /\ logoLoad = "pending"
  /\ fontLoad = "title"
  /\ surface = <<>>
  /\ pass = NoPass
  /\ ev = Ev("init")

\* setCanvasSize() then render(); assigning the canvas size clears the
\* canvas
SizeThenRender(sz) ==
  /\ pass' = Render(sz.state, sz.canvas, fields)
  /\ state' = pass'.stOut
  /\ canvas' = sz.canvas
  /\ surface' = Shown(pass', IF sz.sized THEN <<>> ELSE surface)

\* img.onload of loadDefaultImage
ImgOnload ==
  \E img \in Images : \E vp \in Viewports :
    /\ imgLoad = "pending"
    /\ SizeThenRender(SetCanvasSize([state EXCEPT !.img = img,
                                                  !.nativeWidth = img.width,
                                                  !.nativeHeight = img.height],
                                    canvas, vp))
    /\ imgLoad' = "loaded"
    /\ ev' = Ev("imgOnload")
    /\ UNCHANGED <<fields, logoLoad, fontLoad>>

\* img.onerror of loadDefaultImage
ImgOnerror ==
  /\ imgLoad = "pending"
  /\ canvas' = [width |-> FallbackWidth, height |-> FallbackHeight]
  /\ pass' = Render([state EXCEPT !.nativeWidth = FallbackWidth,
                                  !.nativeHeight = FallbackHeight],
                    canvas', fields)
  /\ state' = pass'.stOut
  /\ surface' = Shown(pass', <<>>)
  /\ imgLoad' = "error"
  /\ ev' = Ev("imgOnerror")
  /\ UNCHANGED <<fields, logoLoad, fontLoad>>

\* a completion's update of the state, then `if (state.img) render()`
UpdateThenRenderIfImage(st) ==
  /\ pass' = IF st.img # Null THEN Render(st, canvas, fields) ELSE NoPass
  /\ state' = IF pass'.invoked THEN pass'.stOut ELSE st
  /\ surface' = Shown(pass', surface)

\* logo.onload of loadDefaultLogo
LogoOnload ==
  \E logo \in Logos :
    /\ logoLoad = "pending"
    /\ UpdateThenRenderIfImage([state EXCEPT !.logo = logo])
    /\ logoLoad' = "loaded"
    /\ ev' = Ev("logoOnload")
    /\ UNCHANGED <<canvas, fields, imgLoad, fontLoad>>

\* logo.onerror of loadDefaultLogo
LogoOnerror ==
  /\ logoLoad = "pending"
  /\ logoLoad' = "error"
  /\ pass' = NoPass
  /\ ev' = Ev("logoOnerror")
  /\ UNCHANGED <<state, canvas, fields, imgLoad, fontLoad, surface>>

\* loadFonts after its first await: the title font has loaded
TitleFontLoaded ==
  /\ fontLoad = "title"
  /\ state' = [state EXCEPT !.titleFont = "TrueNo-Black"]
  /\ fontLoad' = "body"
  /\ pass' = NoPass
  /\ ev' = Ev("titleFontLoaded")
  /\ UNCHANGED <<canvas, fields, imgLoad, logoLoad, surface>>

\* loadFonts after its second await: the body font has loaded
BodyFontLoaded ==
  /\ fontLoad = "body"
  /\ UpdateThenRenderIfImage([state EXCEPT !.bodyFont = "TrueNo-Regular"])
  /\ fontLoad' = "done"
  /\ ev' = Ev("fontsLoaded")
  /\ UNCHANGED <<canvas, fields, imgLoad, logoLoad>>

\* loadFonts: either await rejects, the catch block runs
FontFailed ==
  /\ fontLoad \in {"title", "body"}
  /\ state' = [state EXCEPT !.titleFont = "system-ui", !.bodyFont = "system-ui"]
  /\ fontLoad' = "failed"
  /\ pass' = NoPass
  /\ ev' = Ev("fontFailed")
  /\ UNCHANGED <<canvas, fields, imgLoad, logoLoad, surface>>

\* an input event on one of the five fields: the user has changed its value
FieldInput ==
  \E id \in FieldIds : \E v \in FieldValues(id) :
    /\ v # fields[id]
    /\ fields' = [fields EXCEPT ![id] = v]
    /\ pass' = Render(state, canvas, fields')
    /\ state' = pass'.stOut
    /\ surface' = Shown(pass', surface)
    /\ ev' = Ev("input")
    /\ UNCHANGED <<canvas, imgLoad, logoLoad, fontLoad>>

\* the window's resize handler
Resize ==
  \E vp \in Viewports :
    /\ IF state.img # Null
       THEN SizeThenRender(SetCanvasSize(state, canvas, vp))
       ELSE /\ pass' = NoPass
            /\ UNCHANGED <<state, canvas, surface>>
    /\ ev' = Ev("resize")
    /\ UNCHANGED <<fields, imgLoad, logoLoad, fontLoad>>

\* what the download handler leaves: the export's state and pass
Exported(x, fail) ==
  /\ state' = x.state
  /\ pass' = x.pass
  /\ ev' = [Ev("download") EXCEPT !.fail = fail, !.result = x.result]

\* a click on downloadPng
DownloadClick ==
  \E fail \in Failures :
    /\ Exported(ExportAtNativeResolution(state, fields, fail), fail)
    /\ UNCHANGED <<canvas, fields, imgLoad, logoLoad, fontLoad,
                   surface>>

\* r.onload of the loadPreset handler
PresetOnload ==
  \E preset \in Presets :
    /\ IF PresetThrows(preset)
       THEN /\ ev' = [Ev("loadPreset") EXCEPT !.alert = TRUE,
                                              !.preset = preset.kind]
            /\ pass' = NoPass
            /\ UNCHANGED <<state, fields, surface>>
       ELSE /\ fields' = SetEntries(fields, preset.entries)
            /\ pass' = Render(state, canvas, fields')
            /\ state' = pass'.stOut
            /\ surface' = Shown(pass', surface)
            /\ ev' = [Ev("loadPreset") EXCEPT !.preset = preset.kind]
    /\ UNCHANGED <<canvas, imgLoad, logoLoad, fontLoad>>

Next ==
  \/ ImgOnload
  \/ ImgOnerror
  \/ LogoOnload
  \/ LogoOnerror
  \/ TitleFontLoaded
  \/ BodyFontLoaded
  \/ FontFailed
  \/ FieldInput
  \/ Resize
  \/ DownloadClick
  \/ PresetOnload

Spec == Init /\ [][Next]_vars

----------------------------------------------------------------------------
(* Export-then-restore *)

\* C1: every export made with the native dimensions set leaves state.scale
\* as it found it, whether it returns a data URL or renderToContext or
\* toDataURL raises; its compose pass runs on the export canvas with
\* state.scale = 1.
C1_ExportRestoresScale ==
  [][(/\ ev'.kind = "download"
      /\ state.nativeWidth # 0
      /\ state.nativeHeight # 0)
     => /\ state'.scale = state.scale
        /\ ev'.result \in {"dataURL", "threw"}
        /\ pass'.invoked
        /\ pass'.target = "export"
        /\ pass'.st.scale = One]_vars

\* an export that raised inside renderToContext while the display scale was
\* a proper fraction
C1_Witness ==
  /\ ev.kind = "download"
  /\ ev.fail = "renderToContext"
  /\ pass.threw
  /\ state.scale.n > 0
  /\ state.scale # One

----------------------------------------------------------------------------
(* The fit solver *)

\* C2: every size the fit solver returns in a compose pass is at least
\* minSize and at most maxSize, and is maxSize when the tracked width at
\* maxSize is within maxWidth.
C2_FitWithinBounds ==
  \A i \in DOMAIN pass.fits :
    LET f == pass.fits[i]
    IN /\ f.size >= f.minSize
       /\ f.size <= f.maxSize
       /\ (MeasureWithTrackingForContext(Measured(f.text), f.letter, f.maxSize)
             <= f.maxWidth) => f.size = f.maxSize

\* C6: when title2 is a single word wider than the column even at the floor
\* size, the fit solver returns the floor size minSize = titleMax and a
\* width over the column width.
C6_LongWordAtFloor ==
  \A i \in DOMAIN pass.fits :
    LET f == pass.fits[i]
    IN (/\ f.block = "title2"
        /\ \A k \in DOMAIN f.text : f.text[k] # " "
        /\ MeasureWithTrackingForContext(Measured(f.text), f.letter, f.minSize)
             > f.maxWidth)
       => (f.size = f.minSize /\ f.width > f.maxWidth)

----------------------------------------------------------------------------
(* Scale invariance *)

\* the origins the pass p would compute at scale 1 on the native-size target
OriginsAtScaleOne(p) ==
  Compose([p.st EXCEPT !.scale = One], p.st.nativeWidth, p.st.nativeHeight,
          fields).origins

\* a / d is within one pixel of (n / d) * b, all lengths in units
WithinOnePixel(a, b, sc, px) == Abs(a * sc.d - sc.n * b) <= px * sc.d

\* C3: a compose pass at scale s on the target (N * s, M * s) draws every
\* text block at an origin within one pixel of s times the origin the pass
\* computes at scale 1.
C3_ScaleInvariance ==
  (/\ pass.invoked
   /\ pass.calls # <<>>
   /\ ~pass.threw
   /\ pass.W * pass.st.scale.d = pass.st.nativeWidth * pass.st.scale.n
   /\ pass.H * pass.st.scale.d = pass.st.nativeHeight * pass.st.scale.n)
  => \A i \in DOMAIN pass.origins :
       /\ OriginsAtScaleOne(pass)[i].block = pass.origins[i].block
       /\ WithinOnePixel(pass.origins[i].x, OriginsAtScaleOne(pass)[i].x,
                         pass.st.scale, 100 * pass.st.nativeWidth)
       /\ WithinOnePixel(pass.origins[i].y, OriginsAtScaleOne(pass)[i].y,
                         pass.st.scale, 100 * pass.st.nativeWidth)

----------------------------------------------------------------------------
(* Load completions *)

Completions ==
  {"imgOnload", "imgOnerror", "logoOnload", "fontsLoaded", "fontFailed"}

\* C4: after every load completion, once the native dimensions are set, the
\* canvas shows what a compose pass on the state as that completion left it
\* draws: it is not stale.
C4_CompletionRenders ==
  (/\ ev.kind \in Completions
   /\ state.nativeWidth > 0
   /\ state.nativeHeight > 0
   /\ state.scale.n > 0
   /\ canvas.width > 0
   /\ canvas.height > 0)
  => surface = Compose(state, canvas.width, canvas.height, fields).calls

----------------------------------------------------------------------------
(* The guard of the compose pass *)

\* C5: a compose pass entered with a target width or height, a native width
\* or height or a scale that is not positive issues no draw call and leaves
\* the RenderState as it was handed in and, the handler not having sized the
\* canvas, the canvas and what it shows as they were; a pass entered with
\* valid dimensions draws, the tint fill first.
C5_InvalidDimensionsNoOp ==
  [][pass'.invoked =>
       IF \/ pass'.W <= 0
          \/ pass'.H <= 0
          \/ pass'.st.nativeWidth <= 0
          \/ pass'.st.nativeHeight <= 0
          \/ pass'.st.scale.n <= 0
       THEN /\ pass'.calls = <<>>
            /\ pass'.stOut = pass'.st
            /\ state' = pass'.st
            /\ ev'.kind \in {"input", "loadPreset", "logoOnload", "fontsLoaded"}
                 => (surface' = surface /\ canvas' = canvas)
       ELSE /\ pass'.calls # <<>>
            /\ pass'.calls[1].op = "fillRect"
            /\ pass'.target = "live" => surface' = pass'.calls]_vars

\* a field input before the background image has loaded: the native
\* dimensions are still 0 and nothing is drawn
C5_Witness ==
  /\ ev.kind = "input"
  /\ pass.invoked
  /\ pass.st.nativeWidth = 0
  /\ fields.title1 # <<>>
  /\ surface = <<>>

----------------------------------------------------------------------------
(* Presets *)

\* C7: a preset file that cannot be read as a record (JSON.parse rejects it,
\* or the value it parses to has no entries to read: null, a number) raises
\* the alert, changes none of the five fields and runs no compose pass.
C7_InvalidPresetAborts ==
  [][(ev'.kind = "loadPreset" /\ ev'.preset \in {"malformed", "null", "scalar"})
     => /\ ev'.alert
        /\ fields' = fields
        /\ ~pass'.invoked
        /\ surface' = surface
        /\ state' = state]_vars

----------------------------------------------------------------------------
(* The empty field record *)

Ops(calls) == [i \in DOMAIN calls |-> calls[i].op]

\* C8: with the four text fields empty, a compose pass on valid dimensions
\* issues, in this order, the tint fill, the image draw if there is an
\* image, the wash fill and the logo draw if there is a logo, and no fillText.
C8_EmptyFieldsNoText ==
  (/\ pass.invoked
   /\ ~pass.threw
   /\ pass.W > 0
   /\ pass.H > 0
   /\ pass.st.nativeWidth > 0
   /\ pass.st.nativeHeight > 0
   /\ pass.st.scale.n > 0
   /\ fields.title1 = <<>>
   /\ fields.title2 = <<>>
   /\ fields.subtitle = <<>>
   /\ fields.author = <<>>)
  => /\ Ops(pass.calls) =
          <<"fillRect">>
          \o (IF pass.st.img # Null THEN <<"drawImage">> ELSE <<>>)
          \o <<"fillRect">>
          \o (IF pass.st.logo # Null THEN <<"drawImage">> ELSE <<>>)
     /\ pass.calls[1].alpha = 100
     /\ pass.calls[Len(pass.calls) - (IF pass.st.logo # Null THEN 1 ELSE 0)].alpha
          = 30

\* a pass on the empty field record with both the image and the logo loaded
C8_Witness ==
  /\ pass.invoked
  /\ fields.title1 = <<>>
  /\ fields.title2 = <<>>
  /\ fields.subtitle = <<>>
  /\ fields.author = <<>>
  /\ pass.st.img # Null
  /\ pass.st.logo # Null
  /\ Len(pass.calls) = 4

----------------------------------------------------------------------------
(* The scale model's invariants *)

\* C9: state.scale is always over 0 and, once the native dimensions are
\* set, is the live canvas width over nativeWidth.
C9_ScalePositive ==
  /\ state.scale.n > 0
  /\ (state.nativeWidth > 0 /\ state.nativeHeight > 0)
       => state.scale = Frac(canvas.width, state.nativeWidth)

\* C10: the native dimensions leave 0 once, for the image's dimensions in
\* img.onload or for 1600 x 2560 in img.onerror, and no handler writes them
\* again.
C10_NativeSetOnce ==
  [][/\ (state.nativeWidth # 0 \/ state.nativeHeight # 0)
          => /\ state'.nativeWidth = state.nativeWidth
             /\ state'.nativeHeight = state.nativeHeight
     /\ (state.nativeWidth = 0 /\ state'.nativeWidth # 0)
          => /\ state'.nativeWidth > 0
             /\ state'.nativeHeight > 0
             /\ \/ /\ ev'.kind = "imgOnload"
                   /\ state'.nativeWidth = state'.img.width
                   /\ state'.nativeHeight = state'.img.height
                \/ /\ ev'.kind = "imgOnerror"
                   /\ state'.nativeWidth = FallbackWidth
                   /\ state'.nativeHeight = FallbackHeight
     /\ ev'.kind \in {"imgOnload", "imgOnerror"}
          => (state.nativeWidth = 0 /\ state'.nativeWidth > 0)]_vars

\* an export at the display scale 250/400, after the image set the native
\* dimensions and the logo and the fonts finished loading
C10_Witness ==
  /\ ev.kind = "download"
  /\ ev.result = "dataURL"
  /\ state.nativeWidth = 400
  /\ state.nativeHeight = 640
  /\ state.scale = Frac(250, 400)
  /\ fontLoad = "done"
  /\ logoLoad = "loaded"

====
